---- MODULE Spec2Model ----
(***************************************************************************)
(* Model of the HTU21D humidity/temperature driver (src/htu21d.py).        *)
(*                                                                         *)
(* The driver is single threaded and synchronous, so every public method   *)
(* is one action.  A method body is a composition of statement operators   *)
(* over a frame `s` (the instance attributes, the bus as seen from the     *)
(* driver, the elapsed time, the pending exception and the locals): a      *)
(* statement is skipped when an exception is pending, which is how Python  *)
(* propagates an uncaught exception through the callers.                   *)
(*                                                                         *)
(* Numbers the source writes in hexadecimal are written in decimal here.   *)
(***************************************************************************)
EXTENDS Integers, Sequences, FiniteSets, TLC

VARIABLES delay_t, delay_h, user_reg, last

vars == <<delay_t, delay_h, user_reg, last>>

----------------------------------------------------------------------------
(* Bounds of the model *)

\* a bus transaction of a call may fail: the MaxTx-th one at the latest
MaxTx == 4
\* requested resolution indexes range over (0 - ResOver) .. (3 + ResOver)
ResOver == 2

ResArgs == (0 - ResOver) .. (3 + ResOver)
FailAts == 0 .. MaxTx
\* bytes the device answers with in the driver specification
SampleBytes == {0, 3, 96, 255}
\* every byte, for the specification of the raw value
Byte == 0 .. 255

----------------------------------------------------------------------------
(* Module constants *)

HTU21D_TRIGGER_TEMP_NOHOLD == 243
HTU21D_TRIGGER_HUMD_NOHOLD == 245
HTU21D_WRITE_USER_REG == 230
HTU21D_READ_USER_REG == 231
HTU21D_SOFT_RESET == 254

BITRES_HTU_LIST == <<2, 3, 130, 131>>
HTU_DEALY_FOR_TEMP == <<50, 13, 25, 7>>
HTU_DEALY_FOR_HUMID == <<16, 3, 5, 8>>

\* Python lists are indexed from 0
ListGet(list, i) == list[i + 1]

\* an attribute __init__ never assigned
Unset == -1

NoExc == "none"
IOError == "IOError"
AttributeError == "AttributeError"
TypeError == "TypeError"

----------------------------------------------------------------------------
(* Integer operators of the language *)

RECURSIVE BitAnd(_, _)
BitAnd(a, b) ==
    IF a = 0 \/ b = 0 THEN 0
    ELSE (IF a % 2 = 1 /\ b % 2 = 1 THEN 1 ELSE 0) + 2 * BitAnd(a \div 2, b \div 2)

RECURSIVE BitOr(_, _)
BitOr(a, b) ==
    IF a = 0 THEN b
    ELSE IF b = 0 THEN a
    ELSE (IF a % 2 = 1 \/ b % 2 = 1 THEN 1 ELSE 0) + 2 * BitOr(a \div 2, b \div 2)

RECURSIVE Shl(_, _)
Shl(a, n) == IF n = 0 THEN a ELSE Shl(2 * a, n - 1)

(* Floating point values are modelled as exact fractions num/den, den > 0 *)

RECURSIVE Gcd(_, _)
Gcd(a, b) == IF b = 0 THEN a ELSE Gcd(b, a % b)

Lcm(a, b) == (a \div Gcd(a, b)) * b

Frac(n, d) == [num |-> n, den |-> d]
NoFrac == Frac(0, 0)
FMulInt(x, k) == Frac(x.num * k, x.den)
FDivInt(x, k) == Frac(x.num, x.den * k)
FSub(x, y) ==
    LET l == Lcm(x.den, y.den)
    IN  Frac(x.num * (l \div x.den) - y.num * (l \div y.den), l)
FEq(x, y) == x.den > 0 /\ y.den > 0 /\ x.num * (y.den \div Gcd(x.den, y.den))
                                        = y.num * (x.den \div Gcd(x.den, y.den))

----------------------------------------------------------------------------
(* Frames *)

NoRet == "none"

\* the frame a call starts with: the attributes, and the bus behaviour of
\* this call (failAt: which bus transaction fails, 0 for none; rx: the bytes
\* the device answers with)
Enter(failAt, rx) ==
    [delay_t |-> delay_t, delay_h |-> delay_h, user_reg |-> user_reg,
     failAt |-> failAt, rx |-> rx, now |-> 0, trace |-> <<>>, exc |-> NoExc,
     data |-> <<>>, ret |-> NoRet, raw |-> 0, temp |-> NoFrac, humid |-> NoFrac]

Raised(s) == s.exc # NoExc
Raise(s, e) == [s EXCEPT !.exc = e]

IsBus(ev) == ev.kind \in {"write_bytes", "read", "write_read"}
BusEvents(trace) == SelectSeq(trace, IsBus)
\* the bus transaction about to be made is the one that fails
Fails(s) == s.failAt = Len(BusEvents(s.trace)) + 1

Event(k, bytes, n, data, ok, at, ms) ==
    [kind |-> k, bytes |-> bytes, n |-> n, data |-> data, ok |-> ok, at |-> at, ms |-> ms]

----------------------------------------------------------------------------
(* The bus transport and the sleep primitive, as the driver uses them *)

\* self.write_bytes(*bytes): one bus write; a write of the user register
\* that succeeds sets the device's register
write_bytes(s, bytes) ==
    IF Raised(s) THEN s
    ELSE LET ok == ~Fails(s)
             ev == Event("write_bytes", bytes, 0, <<>>, ok, s.now, 0)
         IN  [s EXCEPT !.trace = Append(@, ev),
                       !.exc = IF ok THEN NoExc ELSE IOError,
                       !.user_reg = IF ok /\ bytes[1] = HTU21D_WRITE_USER_REG
                                    THEN bytes[2] ELSE @]

\* the next n bytes of the device's answer (none when the device has fewer)
Answer(s, n) == IF Len(s.rx) >= n THEN SubSeq(s.rx, 1, n) ELSE <<>>
Rest(s, n) == IF Len(s.rx) >= n THEN SubSeq(s.rx, n + 1, Len(s.rx)) ELSE s.rx

\* self.read(n): one bus read of n bytes into data
read(s, n) ==
    IF Raised(s) THEN s
    ELSE LET ok == ~Fails(s) /\ Len(s.rx) >= n
             got == IF ok THEN Answer(s, n) ELSE <<>>
             ev == Event("read", <<>>, n, got, ok, s.now, 0)
         IN  [s EXCEPT !.trace = Append(@, ev),
                       !.exc = IF ok THEN NoExc ELSE IOError,
                       !.data = got,
                       !.rx = IF ok THEN Rest(s, n) ELSE @]

\* self.write_read(cmd, n): one bus transaction, a write then a read of n bytes
write_read(s, cmd, n) ==
    IF Raised(s) THEN s
    ELSE LET ok == ~Fails(s) /\ Len(s.rx) >= n
             got == IF ok THEN Answer(s, n) ELSE <<>>
             ev == Event("write_read", <<cmd>>, n, got, ok, s.now, 0)
         IN  [s EXCEPT !.trace = Append(@, ev),
                       !.exc = IF ok THEN NoExc ELSE IOError,
                       !.data = got,
                       !.rx = IF ok THEN Rest(s, n) ELSE @]

\* sleep(ms): the caller is suspended for ms milliseconds
sleep(s, ms) ==
    IF Raised(s) THEN s
    ELSE [s EXCEPT !.trace = Append(@, Event("sleep", <<>>, 0, <<>>, TRUE, s.now, ms)),
                   !.now = @ + ms]

\* a call that passes `given` positional arguments to a method that takes
\* `taken` of them (self apart) raises TypeError when they differ
ArityError(given, taken) == given # taken

----------------------------------------------------------------------------
(* The methods of HTU21D *)

_reset(s) == write_bytes(s, <<HTU21D_SOFT_RESET>>)

_set_resolution_index_wrap(res) == res % 4

\* the index _set_resolution uses for res
_set_resolution_index(res) == IF res \notin {0, 1, 2, 3} THEN 0 ELSE res

_set_resolution_early(s, res) ==
    LET e == _set_resolution_index(res)
        s1 == IF Raised(s) THEN s
              ELSE [s EXCEPT !.delay_t = ListGet(HTU_DEALY_FOR_TEMP, e),
                             !.delay_h = ListGet(HTU_DEALY_FOR_HUMID, e)]
        s2 == write_bytes(s1, <<HTU21D_WRITE_USER_REG, ListGet(BITRES_HTU_LIST, e)>>)
    IN  write_read(s2, HTU21D_READ_USER_REG, 1)

_set_resolution_swallow(s, res) ==
    LET e == _set_resolution_index(res)
        s1 == write_bytes(s, <<HTU21D_WRITE_USER_REG, ListGet(BITRES_HTU_LIST, e)>>)
        s2 == IF Raised(s) THEN s
              ELSE [s1 EXCEPT !.exc = NoExc,
                              !.delay_t = ListGet(HTU_DEALY_FOR_TEMP, e),
                              !.delay_h = ListGet(HTU_DEALY_FOR_HUMID, e)]
    IN  write_read(s2, HTU21D_READ_USER_REG, 1)

_set_resolution(s, res) ==
    LET e == _set_resolution_index(res)
        s1 == write_bytes(s, <<HTU21D_WRITE_USER_REG, ListGet(BITRES_HTU_LIST, e)>>)
        s2 == IF Raised(s1) THEN s1
              ELSE [s1 EXCEPT !.delay_t = ListGet(HTU_DEALY_FOR_TEMP, e),
                              !.delay_h = ListGet(HTU_DEALY_FOR_HUMID, e)]
    IN  write_read(s2, HTU21D_READ_USER_REG, 1)

\* init ignores res: it always asks for resolution 0
init(s, res) == _set_resolution(_reset(s), 0)

\* reading an attribute that was never assigned raises AttributeError
_wait_swapped(s, measure) ==
    IF Raised(s) THEN s
    ELSE IF measure = "temp"
         THEN IF s.delay_h = Unset THEN Raise(s, AttributeError) ELSE sleep(s, s.delay_h)
    ELSE IF measure = "humid"
         THEN IF s.delay_t = Unset THEN Raise(s, AttributeError) ELSE sleep(s, s.delay_t)
    ELSE s

_wait_default(s, measure) ==
    IF Raised(s) THEN s
    ELSE IF measure = "temp"
         THEN sleep(s, IF s.delay_t = Unset THEN 0 ELSE s.delay_t)
    ELSE IF measure = "humid"
         THEN sleep(s, IF s.delay_h = Unset THEN 0 ELSE s.delay_h)
    ELSE s

_wait(s, measure) ==
    IF Raised(s) THEN s
    ELSE IF measure = "temp"
         THEN IF s.delay_t = Unset THEN Raise(s, AttributeError) ELSE sleep(s, s.delay_t)
    ELSE IF measure = "humid"
         THEN IF s.delay_h = Unset THEN Raise(s, AttributeError) ELSE sleep(s, s.delay_h)
    ELSE s

raw_value_unmasked(data) == BitOr(Shl(data[1], 8), data[2])

\* (data[0] << 8) | (data[1] & 0xFC)
raw_value(data) == BitOr(Shl(data[1], 8), BitAnd(data[2], 252))

ReturnRaw(s, v) == [s EXCEPT !.ret = "raw", !.raw = v]

get_raw_temp(s) ==
    LET s1 == write_bytes(s, <<HTU21D_TRIGGER_TEMP_NOHOLD>>)
        s2 == _wait(s1, "temp")
        s3 == read(s2, 2)
    IN  IF Raised(s3) THEN s3 ELSE ReturnRaw(s3, raw_value(s3.data))

get_raw_humid_recal(s) ==
    LET s1 == write_bytes(s, <<HTU21D_TRIGGER_HUMD_NOHOLD>>)
        s2 == _wait(s1, "humid")
        s3 == read(s2, 2)
    IN  IF Raised(s3) THEN s3
        ELSE ReturnRaw([s3 EXCEPT !.delay_h = ListGet(HTU_DEALY_FOR_HUMID, 0)],
                       raw_value(s3.data))

get_raw_humid(s) ==
    LET s1 == write_bytes(s, <<HTU21D_TRIGGER_HUMD_NOHOLD>>)
        s2 == _wait(s1, "humid")
        s3 == read(s2, 2)
    IN  IF Raised(s3) THEN s3 ELSE ReturnRaw(s3, raw_value(s3.data))

\* ((175.72*raw)/(65536))-46.85
temp_of(raw) == FSub(FDivInt(FMulInt(Frac(17572, 100), raw), 65536), Frac(4685, 100))

\* ((125*raw)/(65536))-6
humid_of(raw) == FSub(FDivInt(Frac(125 * raw, 1), 65536), Frac(6, 1))

\* get_temp calls self.get_raw_temp(self): one positional argument to a
\* method that takes none
get_temp(s) ==
    LET s1 == IF Raised(s) THEN s
              ELSE IF ArityError(1, 0) THEN Raise(s, TypeError)
              ELSE get_raw_temp(s)
    IN  IF Raised(s1) THEN s1
        ELSE [s1 EXCEPT !.ret = "temp", !.temp = temp_of(s1.raw)]

\* get_humid calls self.get_raw_humid(self) likewise
get_humid(s) ==
    LET s1 == IF Raised(s) THEN s
              ELSE IF ArityError(1, 0) THEN Raise(s, TypeError)
              ELSE get_raw_humid(s)
    IN  IF Raised(s1) THEN s1
        ELSE [s1 EXCEPT !.ret = "humid", !.humid = humid_of(s1.raw)]

get_temp_humid(s) ==
    LET s1 == get_temp(s)
        s2 == get_humid(s1)
    IN  IF Raised(s2) THEN s2 ELSE [s2 EXCEPT !.ret = "pair"]

----------------------------------------------------------------------------
(* The driver as a state machine *)

NoCall ==
    [op |-> "none", arg |-> 0, entry_t |-> Unset, entry_h |-> Unset, trace |-> <<>>,
     elapsed |-> 0, exc |-> NoExc, ret |-> NoRet, raw |-> 0, temp |-> NoFrac,
     humid |-> NoFrac]

\* __init__ assigns _addr only: no delay attribute exists, and nothing has
\* been written to the device
Init ==
    /\ delay_t = Unset
    /\ delay_h = Unset
    /\ user_reg = Unset
    /\ last = NoCall

\* a call ends: the attributes are what the frame left, and `last` records
\* what the caller saw
Finish(op, arg, s) ==
    /\ delay_t' = s.delay_t
    /\ delay_h' = s.delay_h
    /\ user_reg' = s.user_reg
    /\ last' = [op |-> op, arg |-> arg, entry_t |-> delay_t, entry_h |-> delay_h,
                trace |-> s.trace, elapsed |-> s.now, exc |-> s.exc, ret |-> s.ret,
                raw |-> s.raw, temp |-> s.temp, humid |-> s.humid]

Answers(n) == [1 .. n -> SampleBytes]

Initialize ==
    \E res \in ResArgs, f \in FailAts, rx \in Answers(1) :
        Finish("init", res, init(Enter(f, rx), res))

SetResolution ==
    \E res \in ResArgs, f \in FailAts, rx \in Answers(1) :
        Finish("_set_resolution", res, _set_resolution(Enter(f, rx), res))

Reset ==
    \E f \in FailAts : Finish("_reset", 0, _reset(Enter(f, <<>>)))

GetRawTemp ==
    \E f \in FailAts, rx \in Answers(2) :
        Finish("get_raw_temp", 0, get_raw_temp(Enter(f, rx)))

GetRawHumid ==
    \E f \in FailAts, rx \in Answers(2) :
        Finish("get_raw_humid", 0, get_raw_humid(Enter(f, rx)))

GetTemp ==
    \E f \in FailAts, rx \in Answers(2) :
        Finish("get_temp", 0, get_temp(Enter(f, rx)))

GetHumid ==
    \E f \in FailAts, rx \in Answers(2) :
        Finish("get_humid", 0, get_humid(Enter(f, rx)))

GetTempHumid ==
    \E f \in FailAts, rx \in Answers(4) :
        Finish("get_temp_humid", 0, get_temp_humid(Enter(f, rx)))

Next ==
    \/ Initialize
    \/ SetResolution
    \/ Reset
    \/ GetRawTemp
    \/ GetRawHumid
    \/ GetTemp
    \/ GetHumid
    \/ GetTempHumid

Spec == Init /\ [][Next]_vars

(* The raw value over every pair of bytes: the driver is initialised as the *)
(* example does (init() on a working bus), then one raw read is made whose  *)
(* answer ranges over all bytes.                                            *)

BytesInitialize ==
    /\ last.op = "none"
    /\ Finish("init", 0, init(Enter(0, <<0>>), 0))

BytesGetRawTemp ==
    /\ last.op = "init"
    /\ \E b0 \in Byte, b1 \in Byte :
           Finish("get_raw_temp", 0, get_raw_temp(Enter(0, <<b0, b1>>)))

BytesGetRawHumid ==
    /\ last.op = "init"
    /\ \E b0 \in Byte, b1 \in Byte :
           Finish("get_raw_humid", 0, get_raw_humid(Enter(0, <<b0, b1>>)))

NextBytes ==
    \/ BytesInitialize
    \/ BytesGetRawTemp
    \/ BytesGetRawHumid

SpecBytes == Init /\ [][NextBytes]_vars

----------------------------------------------------------------------------
(* Properties *)

\* the tables of the specification, indexed from 1
SpecBitmask == <<2, 3, 130, 131>>
SpecTempDelay == <<50, 13, 25, 7>>
SpecHumidDelay == <<16, 3, 5, 8>>

Ready(t, h) == t # Unset /\ h # Unset
ReadyAtEntry == Ready(last.entry_t, last.entry_h)
RawReads == {"get_raw_temp", "get_raw_humid"}
ReadOps == RawReads \cup {"get_temp", "get_humid", "get_temp_humid"}

IsWrite(ev, bytes) == ev.kind = "write_bytes" /\ ev.bytes = bytes
FailedAt(i) == IsBus(last.trace[i]) /\ ~last.trace[i].ok
NoBusFailure == \A i \in 1 .. Len(last.trace) : ~FailedAt(i)

\* C1: for every res in 0..3 a successful init(res) sends the soft reset
\* (254), then writes the bitmask of index res to the user register (230),
\* and leaves the cached delays at the delays of index res.
C1_InitAppliesRequestedProfile ==
    (last.op = "init" /\ last.arg \in 0 .. 3 /\ last.exc = NoExc) =>
        /\ Len(last.trace) >= 2
        /\ IsWrite(last.trace[1], <<254>>)
        /\ IsWrite(last.trace[2], <<230, SpecBitmask[last.arg + 1]>>)
        /\ delay_t = SpecTempDelay[last.arg + 1]
        /\ delay_h = SpecHumidDelay[last.arg + 1]

\* C2: _set_resolution(i) uses the index e = i for i in 0..3 and e = 0 for
\* any other i: its first bus transaction writes <<230, bitmask[e]>>, a
\* write that passes is followed by the register read-back (231, 1 byte) and
\* nothing else, and leaves the delays at (temp[e], humid[e]); a write that
\* fails ends the call.  So the bus writes and final delays of an
\* out-of-range i are those of 0.
C2_SetResolutionClamps ==
    last.op = "_set_resolution" =>
        LET e == IF last.arg \in {0, 1, 2, 3} THEN last.arg ELSE 0
            tr == last.trace
        IN  /\ Len(tr) >= 1
            /\ IsWrite(tr[1], <<230, SpecBitmask[e + 1]>>)
            /\ tr[1].ok =>
                   /\ Len(tr) = 2
                   /\ tr[2].kind = "write_read" /\ tr[2].bytes = <<231>> /\ tr[2].n = 1
                   /\ delay_t = SpecTempDelay[e + 1]
                   /\ delay_h = SpecHumidDelay[e + 1]
            /\ ~tr[1].ok => Len(tr) = 1

C2_Witness ==
    /\ last.op = "_set_resolution"
    /\ last.arg \notin 0 .. 3
    /\ last.arg % 4 # 0
    /\ last.exc = NoExc
    /\ last.entry_t = 7
    /\ delay_t = 50 /\ delay_h = 16

\* C3: a raw read on a Ready driver makes, in this order and once each, the
\* write of the no-hold trigger (243 temperature, 245 humidity), a wait of
\* the cached delay of the same kind, and a 2-byte read that starts no
\* earlier than that delay after the trigger; the only shorter runs are
\* those a failed trigger write ends.
C3_RawReadOrder ==
    (last.op \in RawReads /\ ReadyAtEntry) =>
        LET tr == last.trace
            cmd == IF last.op = "get_raw_temp" THEN 243 ELSE 245
            d == IF last.op = "get_raw_temp" THEN last.entry_t ELSE last.entry_h
        IN  /\ Len(tr) >= 1
            /\ IsWrite(tr[1], <<cmd>>)
            /\ ~tr[1].ok => Len(tr) = 1
            /\ tr[1].ok =>
                   /\ Len(tr) = 3
                   /\ tr[2].kind = "sleep" /\ tr[2].ms = d /\ tr[2].at = tr[1].at
                   /\ tr[3].kind = "read" /\ tr[3].n = 2
                   /\ tr[3].at >= tr[1].at + d
            /\ \A i \in 1 .. Len(tr) :
                   tr[i].kind = "read" =>
                       \E j \in 1 .. i - 1 : tr[j].kind = "sleep" /\ tr[j].ms = d

C3_Witness ==
    /\ last.op = "get_raw_temp"
    /\ last.ret = "raw"
    /\ last.entry_t = 13 /\ last.entry_h = 3
    /\ last.elapsed = 13
    /\ Len(last.trace) = 3

\* C4: for all bytes b0, b1 the bus returns, a raw read returns
\* (b0 << 8) | (b1 & 252), that is 256*b0 + b1 with the two low bits of b1
\* cleared: a value in 0..65535 that is a multiple of 4; bytes <<96, 0>>
\* give 24576 and bytes <<112, 0>> give 28672.
C4_RawValue ==
    (last.op \in RawReads /\ last.ret = "raw") =>
        LET d == last.trace[3].data
        IN  /\ Len(d) = 2
            /\ last.raw = 256 * d[1] + (d[2] - (d[2] % 4))
            /\ last.raw >= 0 /\ last.raw < 65536
            /\ last.raw % 4 = 0
            /\ d = <<96, 0>> => last.raw = 24576
            /\ d = <<112, 0>> => last.raw = 28672

C4_Witness ==
    /\ last.op = "get_raw_humid"
    /\ last.ret = "raw"
    /\ last.trace[3].data = <<112, 255>>
    /\ last.raw = 28924

\* C5: on a Ready driver with a working bus, get_temp makes one raw
\* temperature read and returns 175.72*r/65536 - 46.85 for its raw value r,
\* and get_humid makes one raw humidity read and returns 125*r/65536 - 6.
C5_CalibratedReads ==
    (last.op \in {"get_temp", "get_humid"} /\ ReadyAtEntry /\ NoBusFailure) =>
        LET tr == last.trace
        IN  /\ Len(tr) = 3
            /\ tr[3].kind = "read" /\ Len(tr[3].data) = 2
            /\ LET r == 256 * tr[3].data[1] + (tr[3].data[2] - (tr[3].data[2] % 4))
               IN  IF last.op = "get_temp"
                   THEN /\ last.ret = "temp"
                        /\ IsWrite(tr[1], <<243>>)
                        /\ FEq(last.temp, Frac(17572 * r - 4685 * 65536, 6553600))
                   ELSE /\ last.ret = "humid"
                        /\ IsWrite(tr[1], <<245>>)
                        /\ FEq(last.humid, Frac(125 * r - 6 * 65536, 65536))

\* C6: on a Ready driver with a working bus, get_temp_humid returns the
\* pair (temperature, humidity) and its bus trace is one temperature round
\* trip (trigger 243, wait, 2-byte read) followed by one humidity round trip
\* (trigger 245, wait, 2-byte read), each value converted from its own read.
C6_TempHumidIsTempThenHumid ==
    (last.op = "get_temp_humid" /\ ReadyAtEntry /\ NoBusFailure) =>
        LET tr == last.trace
        IN  /\ last.ret = "pair"
            /\ Len(tr) = 6
            /\ IsWrite(tr[1], <<243>>) /\ tr[2].kind = "sleep" /\ tr[3].kind = "read"
            /\ IsWrite(tr[4], <<245>>) /\ tr[5].kind = "sleep" /\ tr[6].kind = "read"
            /\ LET rt == 256 * tr[3].data[1] + (tr[3].data[2] - (tr[3].data[2] % 4))
                   rh == 256 * tr[6].data[1] + (tr[6].data[2] - (tr[6].data[2] % 4))
               IN  /\ FEq(last.temp, Frac(17572 * rt - 4685 * 65536, 6553600))
                   /\ FEq(last.humid, Frac(125 * rh - 6 * 65536, 65536))

\* C7: in every operation a failed bus transaction is the last thing the
\* operation does: nothing follows it on the bus (no later transaction, no
\* repeat of the failed one), the failure is what the caller gets, and no
\* sample or converted value is returned.
C7_FailurePropagates ==
    \A i \in 1 .. Len(last.trace) :
        FailedAt(i) =>
            /\ i = Len(last.trace)
            /\ last.exc = IOError
            /\ last.ret = NoRet

C7_Witness ==
    /\ last.op = "init"
    /\ Len(last.trace) = 2
    /\ last.trace[1].ok
    /\ FailedAt(2)
    /\ last.exc = IOError

\* C8: the cached delays change only in _set_resolution (alone or within
\* init): every read, passed or failed, and the soft reset leave both
\* delays as they were.
C8_DelaysFrame ==
    [][(last'.op \in ReadOps \cup {"_reset"}) =>
           (delay_t' = delay_t /\ delay_h' = delay_h)]_vars

C8_Witness ==
    /\ last.op = "get_raw_humid"
    /\ last.ret = "raw"
    /\ last.entry_h = 3
    /\ delay_h = 3 /\ delay_t = 13

\* C9: once a write of the user register has passed, the cached delays are
\* the row of the timing table whose bitmask was written last; a
\* _set_resolution (or init) whose register write did not pass leaves both
\* delays as they were, and one whose read-back fails leaves both at the
\* new row.
C9_DelaysFollowRegister ==
    /\ user_reg # Unset =>
           \E e \in 1 .. 4 :
               /\ SpecBitmask[e] = user_reg
               /\ delay_t = SpecTempDelay[e]
               /\ delay_h = SpecHumidDelay[e]
    /\ last.op \in {"_set_resolution", "init"} =>
           LET tr == last.trace
               regw == {i \in 1 .. Len(tr) :
                           tr[i].kind = "write_bytes" /\ tr[i].bytes[1] = 230}
           IN  /\ (\A i \in regw : ~tr[i].ok) =>
                       (delay_t = last.entry_t /\ delay_h = last.entry_h)
               /\ \A i \in regw :
                      (tr[i].ok /\ i < Len(tr) /\ ~tr[i + 1].ok) =>
                          \E e \in 1 .. 4 :
                              /\ tr[i].bytes[2] = SpecBitmask[e]
                              /\ delay_t = SpecTempDelay[e]
                              /\ delay_h = SpecHumidDelay[e]

C9_Witness ==
    /\ last.op = "_set_resolution"
    /\ last.arg = 3
    /\ last.entry_t = 50
    /\ Len(last.trace) = 2
    /\ FailedAt(2)
    /\ user_reg = 131
    /\ delay_t = 7 /\ delay_h = 8

\* C10: the driver has no cached delay exactly until a user-register write
\* has passed; a raw read made while it has none returns no sample and
\* makes no 2-byte read: it sends the trigger and, the trigger sent, fails
\* at the wait for want of a delay.  Every value returned is returned by a
\* call that found the delays set.
C10_NoSampleBeforeReady ==
    /\ (delay_t = Unset) = (user_reg = Unset)
    /\ (delay_h = Unset) = (user_reg = Unset)
    /\ (last.op \in RawReads /\ ~ReadyAtEntry) =>
           LET tr == last.trace
           IN  /\ last.ret = NoRet
               /\ Len(tr) = 1
               /\ IsWrite(tr[1], <<IF last.op = "get_raw_temp" THEN 243 ELSE 245>>)
               /\ tr[1].ok => last.exc = AttributeError
    /\ last.ret # NoRet => ReadyAtEntry

C10_Witness ==
    /\ last.op = "get_raw_temp"
    /\ last.entry_t = Unset
    /\ last.trace[1].ok
    /\ last.exc = AttributeError
    /\ delay_t = Unset

====
